---- MODULE Spec2Model ----
(***************************************************************************)
(* Model of the gohelpers repository: package config (config.go: New,      *)
(* genFlagSet, processStruct, ParseConfiguration) and package logger       *)
(* (logger.go and its alternate variant: New and its options, the log      *)
(* methods, Shutdown, WithTag and WithTags).                               *)
(*                                                                         *)
(* Flag names are strings; every value that passes through a flag's        *)
(* String()/Set() pair is a Text, a sequence of one-character strings, so  *)
(* that serialising and re-parsing a value is computed, not assumed.       *)
(***************************************************************************)
EXTENDS Naturals, Integers, Sequences, FiniteSets, TLC

VARIABLES
    pc,        \* position of the caller: "init", "new", "panicked", "walked", "configured",
               \* "reconfigured"
    target,    \* the value handed to New / processStruct (Manager.target)
    tagKey,    \* the nameTagOverride argument
    flags,     \* Manager.flags: the registered flags, in registration order
    mem,       \* storage of the struct's leaf fields and of Manager.configFile, by path
    nilp,      \* paths of slice / map fields that are nil
    changed,   \* names of the flags in cmd.Flags().actual (set by the user)
    newErr,    \* the error New (or a direct processStruct call) returned
    walkPrefix,\* the prefix argument of the walk
    args,      \* number of command-line flag occurrences parsed so far
    before,    \* mem when ParseConfiguration was entered
    setFlags,  \* ParseConfiguration's local map setFlags
    raw,       \* what os.ReadFile found at Manager.configFile
    applied,   \* names re-applied by the final loop of ParseConfiguration, in order
    parseErr,  \* the error ParseConfiguration returned
    lpc,       \* position of the logger's caller: "idle", "init", "ready", "panicked"
    variant,   \* the source file of WithTag / WithTags: "logger.go" or "part_002"
    opts,      \* the options handed to logger.New
    loggers,   \* the Logger values that exist, in order of creation
    parent,    \* for each Logger, the Logger it was derived from (0: built by New)
    heap,      \* the backing arrays of the tag slices, by address
    sent,      \* the calls made on Loggers, in order, each with what it returned
    calls,     \* the back-end's record of the log calls it received (stubLog.calls)
    shutdownArgs \* the back-end's record of the Shutdown calls (stubLog.shutdownArgs)

\* the state of package logger
lvars == <<lpc, variant, opts, loggers, parent, heap, sent, calls, shutdownArgs>>

\* the state of package config
cvars == <<pc, target, tagKey, flags, mem, nilp, changed, newErr, walkPrefix,
           args, before, setFlags, raw, applied, parseErr>>

vars == <<cvars, lvars>>

----------------------------------------------------------------------------
(* Bounds of the model. *)

\* command-line flag occurrences parsed before ParseConfiguration
MaxArgs == 2
\* leaf fields one configuration document addresses
MaxDocKeys == 2

----------------------------------------------------------------------------
(* Texts. *)

Digits == <<"0", "1", "2", "3", "4", "5", "6", "7", "8", "9">>

DigitVal(c) == CHOOSE d \in 0..9 : Digits[d + 1] = c

IsDigit(c) == \E d \in 0..9 : Digits[d + 1] = c

RECURSIVE Concat(_)
\* strings.Join(parts, ""): the concatenation of a sequence of texts
Concat(parts) ==
    IF parts = <<>> THEN <<>> ELSE Head(parts) \o Concat(Tail(parts))

RECURSIVE JoinWith(_, _)
\* strings.Join(parts, sep) on texts
JoinWith(parts, sep) ==
    IF parts = <<>> THEN <<>>
    ELSE IF Len(parts) = 1 THEN parts[1]
    ELSE parts[1] \o <<sep>> \o JoinWith(Tail(parts), sep)

RECURSIVE SplitAt(_, _, _)
\* strings.Split(t, sep): cur is the field being read
SplitAt(t, sep, cur) ==
    IF t = <<>> THEN <<cur>>
    ELSE IF Head(t) = sep THEN <<cur>> \o SplitAt(Tail(t), sep, <<>>)
    ELSE SplitAt(Tail(t), sep, Append(cur, Head(t)))

Split(t, sep) == SplitAt(t, sep, <<>>)

RECURSIVE Count(_, _)
\* strings.Count(t, c)
Count(t, c) ==
    IF t = <<>> THEN 0
    ELSE (IF Head(t) = c THEN 1 ELSE 0) + Count(Tail(t), c)

RECURSIVE TrimLeft(_, _)
TrimLeft(t, c) == IF t # <<>> /\ Head(t) = c THEN TrimLeft(Tail(t), c) ELSE t

RECURSIVE TrimRight(_, _)
TrimRight(t, c) ==
    IF t # <<>> /\ t[Len(t)] = c THEN TrimRight(SubSeq(t, 1, Len(t) - 1), c) ELSE t

\* strings.Trim(t, c)
Trim(t, c) == TrimRight(TrimLeft(t, c), c)

RECURSIVE ItoaNat(_)
ItoaNat(n) ==
    IF n < 10 THEN <<Digits[n + 1]>>
    ELSE Append(ItoaNat(n \div 10), Digits[(n % 10) + 1])

\* strconv.Itoa / FormatInt(n, 10)
Itoa(n) == IF n < 0 THEN <<"-">> \o ItoaNat(0 - n) ELSE ItoaNat(n)

RECURSIVE DigitsVal(_, _)
DigitsVal(t, acc) ==
    IF t = <<>> THEN acc ELSE DigitsVal(Tail(t), acc * 10 + DigitVal(Head(t)))

AllDigits(t) == t # <<>> /\ \A k \in 1..Len(t) : IsDigit(t[k])

----------------------------------------------------------------------------
(* The flag registry's value types (pflag): String() and Set() of each     *)
(* flag type ParseConfiguration goes through at config.go:56 and :71.      *)
(* Element texts hold no comma, quote, line break or leading blank, so    *)
(* the CSV writer never quotes a field; durations are whole seconds and    *)
(* floats have one decimal digit.                                          *)

IntKinds == {"int", "int8", "int16", "int32", "int64"}
UintKinds == {"uint", "uint8", "uint16", "uint32", "uint64"}
FloatKinds == {"float32", "float64"}

\* strconv.ParseInt(t, 0, bits) for decimal texts: optional sign, digits, range of the width
InRange(typ, n) ==
    CASE typ = "int8" -> n >= 0 - 128 /\ n <= 127
      [] typ = "int16" -> n >= 0 - 32768 /\ n <= 32767
      [] typ = "uint8" -> n >= 0 /\ n <= 255
      [] typ = "uint16" -> n >= 0 /\ n <= 65535
      [] typ \in UintKinds -> n >= 0
      [] OTHER -> TRUE

Atoi(t) ==
    IF t # <<>> /\ Head(t) \in {"-", "+"} /\ AllDigits(Tail(t))
    THEN [ok |-> TRUE, v |-> IF Head(t) = "-" THEN 0 - DigitsVal(Tail(t), 0)
                                               ELSE DigitsVal(Tail(t), 0)]
    ELSE IF AllDigits(t) THEN [ok |-> TRUE, v |-> DigitsVal(t, 0)]
    ELSE [ok |-> FALSE, v |-> 0]

ParseUint(t) ==
    IF AllDigits(t) THEN [ok |-> TRUE, v |-> DigitsVal(t, 0)] ELSE [ok |-> FALSE, v |-> 0]

\* time.Duration.String() of a whole number of seconds
DurationString(d) ==
    LET h == d \div 3600
        m == (d % 3600) \div 60
        s == d % 60
    IN IF d < 60 THEN Itoa(s) \o <<"s">>
       ELSE IF d < 3600 THEN Itoa(m) \o <<"m">> \o Itoa(s) \o <<"s">>
       ELSE Itoa(h) \o <<"h">> \o Itoa(m) \o <<"m">> \o Itoa(s) \o <<"s">>

UnitSeconds(u) == CASE u = "h" -> 3600 [] u = "m" -> 60 [] OTHER -> 1

RECURSIVE ParseDurationAt(_, _, _)
\* time.ParseDuration on ([0-9]+ unit)+ with units h, m, s; num is the number being read
ParseDurationAt(t, num, acc) ==
    IF t = <<>> THEN [ok |-> num = <<>>, v |-> acc]
    ELSE IF IsDigit(Head(t)) THEN ParseDurationAt(Tail(t), Append(num, Head(t)), acc)
    ELSE IF Head(t) \in {"h", "m", "s"} /\ num # <<>>
         THEN ParseDurationAt(Tail(t), <<>>, acc + DigitsVal(num, 0) * UnitSeconds(Head(t)))
    ELSE [ok |-> FALSE, v |-> 0]

ParseDuration(t) ==
    IF t = <<"0">> THEN [ok |-> TRUE, v |-> 0]
    ELSE IF t = <<>> THEN [ok |-> FALSE, v |-> 0]
    ELSE ParseDurationAt(t, <<>>, 0)

\* strconv.FormatFloat(f, 'g', -1, bits) of a non-negative float held in tenths
FloatString(f) ==
    IF f % 10 = 0 THEN Itoa(f \div 10)
    ELSE Itoa(f \div 10) \o <<".", Digits[(f % 10) + 1]>>

\* strconv.ParseFloat of digits with at most one decimal digit
ParseFloat(t) ==
    LET parts == Split(t, ".")
    IN IF Len(parts) = 1 /\ AllDigits(parts[1])
       THEN [ok |-> TRUE, v |-> DigitsVal(parts[1], 0) * 10]
       ELSE IF Len(parts) = 2 /\ AllDigits(parts[1]) /\ Len(parts[2]) = 1 /\ AllDigits(parts[2])
       THEN [ok |-> TRUE, v |-> DigitsVal(parts[1], 0) * 10 + DigitsVal(parts[2], 0)]
       ELSE [ok |-> FALSE, v |-> 0]

TrueText == <<"t", "r", "u", "e">>
FalseText == <<"f", "a", "l", "s", "e">>

\* strconv.ParseBool
ParseBool(t) ==
    IF t \in {<<"1">>, <<"t">>, <<"T">>, TrueText, <<"T", "R", "U", "E">>, <<"T", "r", "u", "e">>}
    THEN [ok |-> TRUE, v |-> TRUE]
    ELSE IF t \in {<<"0">>, <<"f">>, <<"F">>, FalseText, <<"F", "A", "L", "S", "E">>,
                   <<"F", "a", "l", "s", "e">>}
    THEN [ok |-> TRUE, v |-> FALSE]
    ELSE [ok |-> FALSE, v |-> FALSE]

\* the enumerations of a finite set, as sequences (Go's map iteration order is not fixed)
Orders(S) ==
    {f \in [1..Cardinality(S) -> S] : \A a, b \in 1..Cardinality(S) : a # b => f[a] # f[b]}

\* pflag writeAsCSV: fields joined by commas (no field needs quotes)
writeAsCSV(vals) == JoinWith(vals, ",")

\* pflag readAsCSV
readAsCSV(val) == IF val = <<>> THEN <<>> ELSE Split(val, ",")

PairText(kv) == kv[1] \o <<"=">> \o kv[2]

\* strings.SplitN(pair, "=", 2)
SplitPair(pair) ==
    IF Count(pair, "=") = 0 THEN <<pair>>
    ELSE LET k == CHOOSE j \in 1..Len(pair) :
                      pair[j] = "=" /\ \A l \in 1..(j - 1) : pair[l] # "="
         IN <<SubSeq(pair, 1, k - 1), SubSeq(pair, k + 1, Len(pair))>>

\* a map[string]string is the set of its <<key, value>> pairs
MapKeys(m) == {kv[1] : kv \in m}

\* assigning every pair of new into m (m[k] = v)
MapMerge(m, new) == {kv \in m : kv[1] \notin MapKeys(new)} \cup new

RECURSIVE PairsToMap(_)
\* out[kv[0]] = kv[1] for each pair in order: a later pair overwrites an earlier key
PairsToMap(pairs) ==
    IF pairs = <<>> THEN {}
    ELSE LET last == pairs[Len(pairs)]
         IN MapMerge(PairsToMap(SubSeq(pairs, 1, Len(pairs) - 1)), {last})

\* Value.String(): the texts String() can return for value v of a flag of type typ
ValueStrings(typ, v) ==
    CASE typ = "string" -> {v}
      [] typ \in IntKinds \cup UintKinds -> {Itoa(v)}
      [] typ = "duration" -> {DurationString(v)}
      [] typ \in FloatKinds -> {FloatString(v)}
      [] typ = "bool" -> {IF v THEN TrueText ELSE FalseText}
      [] typ = "stringSlice" -> {<<"[">> \o writeAsCSV(v) \o <<"]">>}
      [] typ = "intSlice" -> {<<"[">> \o JoinWith([k \in 1..Len(v) |-> Itoa(v[k])], ",") \o <<"]">>}
      [] typ = "stringToString" ->
            {<<"[">> \o writeAsCSV([k \in 1..Len(o) |-> PairText(o[k])]) \o <<"]">> : o \in Orders(v)}

\* Value.Set(text) on a flag of type typ holding cur; wasChanged is the value's own
\* changed mark. ok = FALSE is a returned error, and then v is cur.
ValueSet(typ, cur, wasChanged, text) ==
    CASE typ = "string" -> [ok |-> TRUE, v |-> text]
      [] typ \in IntKinds ->
            LET r == Atoi(text)
            IN IF r.ok /\ InRange(typ, r.v) THEN r ELSE [ok |-> FALSE, v |-> cur]
      [] typ \in UintKinds ->
            LET r == ParseUint(text)
            IN IF r.ok /\ InRange(typ, r.v) THEN r ELSE [ok |-> FALSE, v |-> cur]
      [] typ = "duration" ->
            LET r == ParseDuration(text) IN IF r.ok THEN r ELSE [ok |-> FALSE, v |-> cur]
      [] typ \in FloatKinds ->
            LET r == ParseFloat(text) IN IF r.ok THEN r ELSE [ok |-> FALSE, v |-> cur]
      [] typ = "bool" ->
            LET r == ParseBool(text) IN IF r.ok THEN r ELSE [ok |-> FALSE, v |-> cur]
      [] typ = "stringSlice" ->
            LET rv == readAsCSV(text)
            IN [ok |-> TRUE, v |-> IF wasChanged THEN cur \o rv ELSE rv]
      [] typ = "intSlice" ->
            LET ss == Split(text, ",")
                rs == [k \in 1..Len(ss) |-> Atoi(ss[k])]
            IN IF \A k \in 1..Len(rs) : rs[k].ok
               THEN LET out == [k \in 1..Len(rs) |-> rs[k].v]
                    IN [ok |-> TRUE, v |-> IF wasChanged THEN cur \o out ELSE out]
               ELSE [ok |-> FALSE, v |-> cur]
      [] typ = "stringToString" ->
            LET n == Count(text, "=")
                ss == IF n = 1 THEN <<Trim(text, "\"")>> ELSE readAsCSV(text)
                kvs == [k \in 1..Len(ss) |-> SplitPair(ss[k])]
            IN IF n = 0 \/ \E k \in 1..Len(kvs) : Len(kvs[k]) # 2
               THEN [ok |-> FALSE, v |-> cur]
               ELSE LET out == PairsToMap(kvs)
                    IN [ok |-> TRUE, v |-> IF wasChanged THEN MapMerge(cur, out) ELSE out]

----------------------------------------------------------------------------
(* Struct types, as reflection shows them. A field is                      *)
(*   go: its Go name, exported: whether it is exported, tags: its struct   *)
(*   tag, kind: reflect.Kind, typ: Type().String(), key / elem: the kinds  *)
(*   of a map's key and of a slice's or map's element, fields: the fields  *)
(*   of a struct-typed field, init: the value the caller put in it,        *)
(*   isnil: whether a slice or map field starts nil.                       *)

TagGet(tags, key) == IF key \in DOMAIN tags THEN tags[key] ELSE ""

Leaf(go, tags, kind, init) ==
    [go |-> go, exported |-> TRUE, tags |-> tags, kind |-> kind, typ |-> kind,
     key |-> "", elem |-> "", fields |-> <<>>, init |-> init, isnil |-> FALSE]

Private(go, tags, kind, init) == [Leaf(go, tags, kind, init) EXCEPT !.exported = FALSE]

Duration(go, tags, init) == [Leaf(go, tags, "int64", init) EXCEPT !.typ = "time.Duration"]

Slice(go, tags, elem, init, isnil) ==
    [Leaf(go, tags, "slice", init) EXCEPT !.typ = "[]" \o elem, !.elem = elem, !.isnil = isnil]

Map(go, tags, key, elem, init, isnil) ==
    [Leaf(go, tags, "map", init) EXCEPT !.typ = "map[" \o key \o "]" \o elem,
                                        !.key = key, !.elem = elem, !.isnil = isnil]

Struct(go, tags, fields) ==
    [Leaf(go, tags, "struct", 0) EXCEPT !.typ = go, !.fields = fields]

Txt(c) == <<c>>

\* config_test.go SimpleConfig
SimpleConfig == <<
    Leaf("Name", [name |-> "name", short |-> "n"], "string", <<>>),
    Leaf("Port", [name |-> "port", short |-> "p"], "int", 0),
    Leaf("Debug", [name |-> "debug", short |-> "d"], "bool", FALSE),
    Duration("Timeout", [name |-> "timeout", short |-> "t"], 0),
    Leaf("Rate", [name |-> "rate"], "float64", 0) >>

\* config_test.go ComplexConfig, filled with non-zero values before New
ComplexConfig == <<
    Struct("Basic", [name |-> "basic"], <<
        Leaf("Name", [name |-> "name"], "string", Txt("d")) >>),
    Struct("Server", [name |-> "server"], <<
        Leaf("Host", [name |-> "host"], "string", <<>>),
        Leaf("Port", [name |-> "port"], "int", 80) >>),
    Slice("Tags", [name |-> "tags"], "string", <<Txt("d")>>, FALSE),
    Map("Metadata", [name |-> "metadata"], "string", "string", {<<Txt("k"), Txt("d")>>}, FALSE) >>

\* ComplexConfig's collections on a zeroed struct
ZeroCollections == <<
    Slice("Tags", [name |-> "tags", short |-> "g"], "string", <<>>, TRUE),
    Slice("Ports", [name |-> "ports"], "int", <<>>, TRUE),
    Map("Metadata", [name |-> "metadata"], "string", "string", {}, TRUE) >>

\* config_test.go TestProcessStructDeeplyNested
Level1 == <<
    Struct("Level2", [name |-> "level2"], <<
        Struct("Level3", [name |-> "level3"], <<
            Leaf("Value", [name |-> "value"], "string", <<>>) >>) >>) >>

\* tagged, untagged and unexported fields, an untagged struct, and fields tagged under "yaml"
MixedConfig == <<
    Leaf("WithTag", [name |-> "with-tag"], "string", <<>>),
    Leaf("WithoutTag", [description |-> "no name"], "string", <<>>),
    Private("private", [name |-> "private"], "string", <<>>),
    Struct("Inner", [description |-> "no name"], <<
        Leaf("Value", [name |-> "value"], "string", <<>>) >>),
    Struct("hidden", [name |-> "hidden"], <<
        Leaf("Value", [name |-> "value"], "string", <<>>) >>),
    Leaf("Alt", [yaml |-> "alt"], "int", 3),
    Struct("Both", [name |-> "both", yaml |-> "both"], <<
        Leaf("Leaf", [name |-> "leaf", yaml |-> "leaf"], "bool", TRUE),
        Leaf("Only", [name |-> "only"], "string", <<>>) >>) >>

\* config_test.go TestProcessStructDurationTypes and the signed widths
IntTypes == <<
    Leaf("Int8", [name |-> "int8", short |-> "a"], "int8", 0),
    Leaf("Int16", [name |-> "int16"], "int16", 0),
    Leaf("Int32", [name |-> "int32"], "int32", 0),
    Leaf("RegularInt64", [name |-> "regular-int64"], "int64", 12),
    Duration("Timeout", [name |-> "timeout"], 30) >>

UintTypes == <<
    Leaf("Uint", [name |-> "uint"], "uint", 0),
    Leaf("Uint8", [name |-> "uint8", short |-> "e"], "uint8", 0),
    Leaf("Uint16", [name |-> "uint16"], "uint16", 0),
    Leaf("Uint32", [name |-> "uint32"], "uint32", 0),
    Leaf("Uint64", [name |-> "uint64"], "uint64", 7),
    Leaf("Float32", [name |-> "float32"], "float32", 15) >>

\* config_test.go TestGenFlagSet_ProcessStructError, with a field after the bad one
ConfigWithUnsupported == <<
    Leaf("Name", [name |-> "name"], "string", <<>>),
    Leaf("BadField", [name |-> "bad"], "chan", 0),
    Leaf("After", [name |-> "after"], "string", <<>>) >>

\* config_test.go TestProcessStructUnsupportedSlice / MapIntValues / StringToStringSliceMap
ConfigWithFloatSlice == <<
    Leaf("Name", [name |-> "name"], "string", <<>>),
    Slice("Rates", [name |-> "rates"], "float64", <<>>, TRUE) >>

ConfigWithIntMap == <<
    Map("IntValues", [name |-> "intvalues"], "string", "int", {}, TRUE),
    Leaf("Port", [name |-> "port"], "int", 0) >>

ConfigWithStringSliceMap == <<
    Leaf("Name", [name |-> "name", short |-> "n"], "string", <<>>),
    [Map("Headers", [name |-> "headers"], "string", "slice", {}, TRUE)
        EXCEPT !.typ = "map[string][]string"],
    Leaf("Port", [name |-> "port"], "int", 0) >>

\* config_test.go TestProcessStructUnsupportedInterface, and the other kinds of the
\* default case
ConfigWithInterface == <<
    Leaf("Name", [name |-> "name"], "string", <<>>),
    Leaf("Interface", [name |-> "interface"], "interface", 0) >>

ConfigWithFunc == <<
    Struct("Hooks", [name |-> "hooks"], <<
        Leaf("OnLoad", [name |-> "on-load"], "func", 0) >>),
    Leaf("Name", [name |-> "name"], "string", <<>>) >>

\* a map whose keys are not strings
ConfigWithIntKeyMap == <<
    Leaf("Name", [name |-> "name"], "string", <<>>),
    Map("ByID", [name |-> "by-id"], "int", "string", {}, TRUE) >>

\* a field whose short alias is the one New gives to "config"
ShortClash == <<
    Leaf("Name", [name |-> "name"], "string", <<>>),
    Leaf("Count", [name |-> "count", short |-> "c"], "int", 0) >>

\* what a caller can hand to New: a pointer to a struct, a pointer to something else,
\* or no pointer at all
PtrTo(name, fields) == [kind |-> "ptr", elem |-> "struct", name |-> name, fields |-> fields]

Targets == {
    PtrTo("SimpleConfig", SimpleConfig),
    PtrTo("ComplexConfig", ComplexConfig),
    PtrTo("ZeroCollections", ZeroCollections),
    PtrTo("Level1", Level1),
    PtrTo("MixedConfig", MixedConfig),
    PtrTo("IntTypes", IntTypes),
    PtrTo("UintTypes", UintTypes),
    PtrTo("ConfigWithUnsupported", ConfigWithUnsupported),
    PtrTo("ConfigWithFloatSlice", ConfigWithFloatSlice),
    PtrTo("ConfigWithIntMap", ConfigWithIntMap),
    PtrTo("ConfigWithStringSliceMap", ConfigWithStringSliceMap),
    PtrTo("ConfigWithInterface", ConfigWithInterface),
    PtrTo("ConfigWithFunc", ConfigWithFunc),
    PtrTo("ConfigWithIntKeyMap", ConfigWithIntKeyMap),
    PtrTo("ShortClash", ShortClash),
    [kind |-> "ptr", elem |-> "int", name |-> "*int", fields |-> <<>>],
    [kind |-> "struct", elem |-> "", name |-> "SimpleConfig", fields |-> SimpleConfig],
    [kind |-> "string", elem |-> "", name |-> "string", fields |-> <<>>] }

TagKeys == {"", "name", "yaml"}

Prefixes == {"", "parent"}

\* the storage address of Manager.configFile; a field's address is its index path
ConfigFilePtr == <<0>>

RECURSIVE LeafPaths(_, _)
\* the index paths of the non-struct fields below a struct
LeafPaths(fields, path) ==
    UNION {IF fields[i].kind = "struct"
           THEN LeafPaths(fields[i].fields, Append(path, i))
           ELSE {Append(path, i)} : i \in 1..Len(fields)}

RECURSIVE FieldAt(_, _)
\* the field an index path leads to
FieldAt(fields, path) ==
    IF Len(path) = 1 THEN fields[path[1]] ELSE FieldAt(fields[path[1]].fields, Tail(path))

----------------------------------------------------------------------------
(* config.go: New, genFlagSet, processStruct. *)

NoErr == [msg |-> "", typ |-> "", field |-> ""]

\* fmt.Errorf("<msg> %s for field %s", typ, field)
FieldErr(msg, typ, field) == [msg |-> msg, typ |-> typ, field |-> field]

DefaultConfigPath == <<".", "/", "c", "o", "n", "f", "i", "g", ".", "y", "m", "l">>

\* config.go:37-43, the flag New registers itself
ConfigFlag ==
    [name |-> "config", short |-> "c", typ |-> "string", ptr |-> ConfigFilePtr,
     def |-> DefaultConfigPath]

\* reflect.Value.CanSet of a field reached through settable fields
CanSet(field) == field.exported

\* config.go:119-121 without the fallback to "name"
EffectiveTagNoFallback(nameTag) == nameTag

\* config.go:119-121
EffectiveTag(nameTag) == IF nameTag = "" THEN "name" ELSE nameTag

\* config.go:126-129 had the check spared struct-typed fields
skipFieldUnlessStruct(field, name) == name = "" /\ field.kind # "struct"

\* config.go:126-129, "Skip fields without name tag"
skipField(field, name) == name = ""

\* config.go:132-135 without the prefix
fullNameLocal(prefix, name) == name

\* config.go:132-135
fullNameOf(prefix, name) == IF prefix # "" THEN prefix \o "." \o name ELSE name

\* config.go:148-285 without the time.Duration case of config.go:181
flagTypeOfKind(field) ==
    CASE field.kind \in {"string", "bool"} \cup IntKinds \cup UintKinds \cup FloatKinds ->
            [typ |-> field.kind, err |-> NoErr]
      [] field.kind = "slice" /\ field.elem \in {"string", "int"} ->
            [typ |-> field.elem \o "Slice", err |-> NoErr]
      [] field.kind = "map" /\ field.key = "string" /\ field.elem = "string" ->
            [typ |-> "stringToString", err |-> NoErr]
      [] OTHER -> [typ |-> "", err |-> FieldErr("unsupported field type", field.kind, field.go)]

\* config.go:148-285, the switch on fieldValue.Kind(): the type of the flag to register,
\* or the error to return
flagTypeOf(field) ==
    CASE field.kind = "string" -> [typ |-> "string", err |-> NoErr]
      [] field.kind \in {"int", "int8", "int16", "int32"} -> [typ |-> field.kind, err |-> NoErr]
      [] field.kind = "int64" ->
            [typ |-> IF field.typ = "time.Duration" THEN "duration" ELSE "int64", err |-> NoErr]
      [] field.kind \in UintKinds -> [typ |-> field.kind, err |-> NoErr]
      [] field.kind = "bool" -> [typ |-> "bool", err |-> NoErr]
      [] field.kind \in FloatKinds -> [typ |-> field.kind, err |-> NoErr]
      [] field.kind = "slice" ->
            CASE field.elem = "string" -> [typ |-> "stringSlice", err |-> NoErr]
              [] field.elem = "int" -> [typ |-> "intSlice", err |-> NoErr]
              [] OTHER -> [typ |-> "",
                           err |-> FieldErr("unsupported slice type", field.typ, field.go)]
      [] field.kind = "map" ->
            IF field.key = "string" /\ field.elem = "string"
            THEN [typ |-> "stringToString", err |-> NoErr]
            ELSE [typ |-> "", err |-> FieldErr("unsupported map type", field.typ, field.go)]
      [] OTHER -> [typ |-> "", err |-> FieldErr("unsupported field type", field.kind, field.go)]

\* pflag FlagSet.AddFlag (behind every fs.*Var / fs.*VarP call of config.go:148-282):
\* a second flag of the same name panics; otherwise the flag is registered, and a short
\* alias already taken panics
AddFlag(w, flag) ==
    IF \E k \in 1..Len(w.flags) : w.flags[k].name = flag.name
    THEN [w EXCEPT !.panicked = TRUE]
    ELSE [w EXCEPT !.flags = Append(w.flags, flag),
                   !.panicked = flag.short # "" /\
                                \E k \in 1..Len(w.flags) : w.flags[k].short = flag.short]

\* config.go:145-285 for one field, had a type with no flag been passed over in silence
bindFieldIgnoringErr(w, field, fullName, short, ptr) ==
    LET d == flagTypeOf(field)
    IN IF d.err # NoErr THEN w
       ELSE AddFlag([w EXCEPT !.nilp = w.nilp \ {ptr}],
                    [name |-> fullName, short |-> short, typ |-> d.typ, ptr |-> ptr,
                     def |-> w.mem[ptr]])

\* config.go:145-285 for one field, had the flag been given its type's zero value as default
bindFieldZeroDefault(w, field, fullName, short, ptr) ==
    LET d == flagTypeOf(field)
    IN IF d.err # NoErr THEN [w EXCEPT !.err = d.err]
       ELSE AddFlag([w EXCEPT !.nilp = w.nilp \ {ptr}],
                    [name |-> fullName, short |-> short, typ |-> d.typ, ptr |-> ptr,
                     def |-> CASE field.kind \in {"string", "slice"} -> <<>>
                               [] field.kind = "map" -> {}
                               [] field.kind = "bool" -> FALSE
                               [] OTHER -> 0])

\* config.go:145-285 for one field, had the flag's constructor not stored the default
\* through the pointer
bindFieldWithoutStore(w, field, fullName, short, ptr) ==
    LET d == flagTypeOf(field)
    IN IF d.err # NoErr THEN [w EXCEPT !.err = d.err]
       ELSE AddFlag(w, [name |-> fullName, short |-> short, typ |-> d.typ, ptr |-> ptr,
                        def |-> w.mem[ptr]])

\* config.go:145-282 for one field: bind a flag of the dispatched type to the field's
\* storage, with the field's current value as default. The flag's constructor stores the
\* default through the pointer (a fresh slice or map for a collection).
bindField(w, field, fullName, short, ptr) ==
    LET d == flagTypeOf(field)
    IN IF d.err # NoErr THEN [w EXCEPT !.err = d.err]
       ELSE AddFlag([w EXCEPT !.nilp = w.nilp \ {ptr}],
                    [name |-> fullName, short |-> short, typ |-> d.typ, ptr |-> ptr,
                     def |-> w.mem[ptr]])

RECURSIVE processStruct(_, _, _, _, _, _)
\* config.go:106-289; v is the struct's fields, path its address, i the loop index,
\* w the flag set (with the storage the flags write through, the error and the panic)
processStruct(nameTag, w, v, prefix, path, i) ==
    IF i > Len(v) THEN w
    ELSE LET field == v[i]
             tag == EffectiveTag(nameTag)
             name == TagGet(field.tags, tag)
             short == TagGet(field.tags, "short")
             fullName == fullNameOf(prefix, name)
             step == IF ~CanSet(field) THEN w
                     ELSE IF skipField(field, name) THEN w
                     ELSE IF field.kind = "struct"
                          THEN processStruct(tag, w, field.fields, fullName, Append(path, i), 1)
                     ELSE bindField(w, field, fullName, short, Append(path, i))
         IN IF step.err # NoErr \/ step.panicked THEN step
            ELSE processStruct(nameTag, step, v, prefix, path, i + 1)

\* config.go:85-103 without the check of config.go:94-96
genFlagSetNoStructCheck(w, t, nameTag) ==
    IF t.kind # "ptr" THEN [w EXCEPT !.err = FieldErr("expected pointer to struct", t.kind, "")]
    ELSE processStruct(nameTag, w, t.fields, "", <<>>, 1)

\* config.go:85-103 had the flags of a failed walk been taken back
genFlagSetRollback(w, t, nameTag) ==
    IF t.kind # "ptr" THEN [w EXCEPT !.err = FieldErr("expected pointer to struct", t.kind, "")]
    ELSE IF t.elem # "struct" THEN [w EXCEPT !.err = FieldErr("expected struct", t.elem, "")]
    ELSE LET r == processStruct(nameTag, w, t.fields, "", <<>>, 1)
         IN IF r.err # NoErr THEN [w EXCEPT !.err = r.err] ELSE r

\* config.go:85-103
genFlagSet(w, t, nameTag) ==
    IF t.kind # "ptr" THEN [w EXCEPT !.err = FieldErr("expected pointer to struct", t.kind, "")]
    ELSE IF t.elem # "struct" THEN [w EXCEPT !.err = FieldErr("expected struct", t.elem, "")]
    ELSE processStruct(nameTag, w, t.fields, "", <<>>, 1)

\* the struct's storage as the caller filled it
InitMem(t) == [p \in LeafPaths(t.fields, <<>>) |-> FieldAt(t.fields, p).init]

InitNil(t) == {p \in LeafPaths(t.fields, <<>>) : FieldAt(t.fields, p).isnil}

----------------------------------------------------------------------------
(* The command line and the configuration file. *)

\* what the user can write after a flag of each type
CmdTexts(typ) ==
    CASE typ = "string" -> {<<"y">>}
      [] typ \in IntKinds \cup UintKinds -> {<<"9">>}
      [] typ = "duration" -> {<<"9", "s">>}
      [] typ \in FloatKinds -> {<<"2", ".", "5">>}
      [] typ = "bool" -> {TrueText, FalseText}
      [] typ = "stringSlice" -> {<<"a", ",", "b">>}
      [] typ = "intSlice" -> {<<"1", ",", "2">>}
      [] typ = "stringToString" -> {<<"a", "=", "b">>}

\* the values a document can give a field (bad: a value of the wrong type)
FileValues(field) ==
    CASE field.kind = "string" -> {[v |-> Txt("x"), bad |-> FALSE]}
      [] field.kind = "int" -> {[v |-> 8, bad |-> FALSE], [v |-> 0, bad |-> TRUE]}
      [] field.kind \in (IntKinds \cup UintKinds) \ {"int"} -> {[v |-> 8, bad |-> FALSE]}
      [] field.kind \in FloatKinds -> {[v |-> 35, bad |-> FALSE]}
      [] field.kind = "bool" -> {[v |-> ~field.init, bad |-> FALSE]}
      [] field.kind = "slice" /\ field.elem = "string" -> {[v |-> <<Txt("x")>>, bad |-> FALSE]}
      [] field.kind = "slice" /\ field.elem = "int" -> {[v |-> <<8>>, bad |-> FALSE]}
      [] field.kind = "map" /\ field.key = "string" /\ field.elem = "string" ->
            {[v |-> {<<Txt("f"), Txt("x")>>}, bad |-> FALSE]}
      [] OTHER -> {}

RECURSIVE Exported(_, _)
\* every field on the path is exported (the decoder writes exported fields only)
Exported(fields, path) ==
    fields[path[1]].exported /\
    (Len(path) = 1 \/ Exported(fields[path[1]].fields, Tail(path)))

\* the fields a document can address
Addressable(t) ==
    {p \in LeafPaths(t.fields, <<>>) :
        Exported(t.fields, p) /\ FileValues(FieldAt(t.fields, p)) # {}}

RECURSIVE DocsOver(_, _)
\* the documents that give a value to exactly the fields S
DocsOver(t, S) ==
    IF S = {} THEN {<<>>}
    ELSE LET p == CHOOSE q \in S : TRUE
         IN {(p :> e) @@ d : e \in FileValues(FieldAt(t.fields, p)), d \in DocsOver(t, S \ {p})}

\* the documents: each gives a value to at most MaxDocKeys fields
Docs(t) ==
    UNION {DocsOver(t, S) : S \in {S \in SUBSET Addressable(t) : Cardinality(S) <= MaxDocKeys}}

\* what os.ReadFile and the YAML parser can find at Manager.configFile
Files(t) ==
    {[kind |-> "missing", doc |-> <<>>], [kind |-> "malformed", doc |-> <<>>]} \cup
    {[kind |-> "doc", doc |-> d] : d \in Docs(t)}

\* the zero value of a field's type
ZeroOf(field) ==
    CASE field.kind = "string" -> <<>>
      [] field.kind = "bool" -> FALSE
      [] field.kind = "slice" -> <<>>
      [] field.kind = "map" -> {}
      [] OTHER -> 0

\* a decoder that appends a sequence to the field's slice instead of replacing it
UnmarshalAppending(t, doc, m, np) ==
    [mem |-> [p \in DOMAIN m |->
                 IF p \in DOMAIN doc /\ ~doc[p].bad
                 THEN IF FieldAt(t.fields, p).kind = "map" /\ p \notin np
                      THEN MapMerge(m[p], doc[p].v)
                      ELSE IF FieldAt(t.fields, p).kind = "slice"
                      THEN m[p] \o doc[p].v
                      ELSE doc[p].v
                 ELSE m[p]],
     nilp |-> np \ {p \in DOMAIN doc : ~doc[p].bad},
     ok |-> \A p \in DOMAIN doc : ~doc[p].bad]

\* a decoder that decodes into a zeroed struct: a field the document does not give is reset
UnmarshalZeroing(t, doc, m, np) ==
    [mem |-> [p \in DOMAIN m |->
                 IF p \in DOMAIN doc /\ ~doc[p].bad THEN doc[p].v
                 ELSE IF p = ConfigFilePtr THEN m[p]
                 ELSE ZeroOf(FieldAt(t.fields, p))],
     nilp |-> np \ {p \in DOMAIN doc : ~doc[p].bad},
     ok |-> \A p \in DOMAIN doc : ~doc[p].bad]

\* yaml.Unmarshal(raw, m.target) at config.go:65 for a well-formed document: a scalar or a
\* sequence replaces the field, a mapping is assigned key by key into the field's map, a
\* value of the wrong type is reported after the rest has been decoded
Unmarshal(t, doc, m, np) ==
    [mem |-> [p \in DOMAIN m |->
                 IF p \in DOMAIN doc /\ ~doc[p].bad
                 THEN IF FieldAt(t.fields, p).kind = "map" /\ p \notin np
                      THEN MapMerge(m[p], doc[p].v)
                      ELSE doc[p].v
                 ELSE m[p]],
     nilp |-> np \ {p \in DOMAIN doc : ~doc[p].bad},
     ok |-> \A p \in DOMAIN doc : ~doc[p].bad]

FlagNamed(fs, name) == fs[CHOOSE k \in 1..Len(fs) : fs[k].name = name]

\* FlagSet.Set on a flag that keeps its value in storage of its own, not in the field
FlagSetSetDetached(fs, m, ch, name, text) ==
    LET f == FlagNamed(fs, name)
        r == ValueSet(f.typ, m[f.ptr], name \in ch, text)
    IN [ok |-> r.ok, mem |-> m, changed |-> IF r.ok THEN ch \cup {name} ELSE ch]

\* pflag FlagSet.Set(name, text), called by the command-line parser and at config.go:71
FlagSetSet(fs, m, ch, name, text) ==
    LET f == FlagNamed(fs, name)
        r == ValueSet(f.typ, m[f.ptr], name \in ch, text)
    IN [ok |-> r.ok,
        mem |-> IF r.ok THEN [m EXCEPT ![f.ptr] = r.v] ELSE m,
        changed |-> IF r.ok THEN ch \cup {name} ELSE ch]

\* a snapshot that does not leave out the "config" flag
SnapshotNamesAll(ch) == ch

\* config.go:54-58, the names cmd.Flags().Visit hands to the snapshot
SnapshotNames(ch) == {n \in ch : n # "config"}

\* config.go:53-58: the possible contents of setFlags
Snapshots(fs, m, ch) ==
    LET names == SnapshotNames(ch)
        texts(n) == ValueStrings(FlagNamed(fs, n).typ, m[FlagNamed(fs, n).ptr])
    IN {sf \in [names -> UNION {texts(n) : n \in names}] : \A n \in names : sf[n] \in texts(n)}

RECURSIVE Reapply(_, _, _, _, _, _)
\* config.go:70-74: set the snapshotted flags in the order the map is ranged over,
\* returning at the first failure
Reapply(fs, sf, order, k, st, ch) ==
    IF k > Len(order) THEN st
    ELSE LET r == FlagSetSet(fs, st.mem, ch, order[k], sf[order[k]])
         IN IF ~r.ok THEN [st EXCEPT !.failed = order[k]]
            ELSE Reapply(fs, sf, order, k + 1,
                         [st EXCEPT !.mem = r.mem, !.applied = Append(st.applied, order[k])],
                         r.changed)

\* config.go:61-64: os.ReadFile returned an error
ReadFails(file) == file.kind = "missing"

\* a check that lets a document with a value of the wrong type through
DecodeFailsSyntaxOnly(file, ok) == file.kind = "malformed"

\* config.go:65-67: yaml.Unmarshal returned an error (ok: every value had the field's type)
DecodeFails(file, ok) == file.kind = "malformed" \/ ~ok

----------------------------------------------------------------------------
(* The operations. *)

NoFile == [kind |-> "none", doc |-> <<>>]

\* package logger is not in use
LoggerIdle ==
    /\ lpc = "idle" /\ variant = "logger.go" /\ opts = <<>> /\ loggers = <<>>
    /\ parent = <<>> /\ heap = <<>> /\ sent = <<>> /\ calls = <<>> /\ shutdownArgs = <<>>

Init ==
    /\ pc = "init"
    /\ target \in Targets
    /\ tagKey \in TagKeys
    /\ flags = <<>>
    /\ mem = InitMem(target)
    /\ nilp = InitNil(target)
    /\ changed = {}
    /\ newErr = NoErr
    /\ walkPrefix = ""
    /\ args = 0
    /\ before = InitMem(target)
    /\ setFlags = <<>>
    /\ raw = NoFile
    /\ applied = <<>>
    /\ parseErr = ""
    /\ LoggerIdle

\* the flag set after the walk, started from registry fs0
Walked(fs0, m0) == [flags |-> fs0, mem |-> m0, nilp |-> nilp, err |-> NoErr, panicked |-> FALSE]

\* config.go:26-46
New ==
    /\ pc = "init"
    /\ IF target.kind # "ptr"
       THEN /\ pc' = "panicked"
            /\ UNCHANGED <<flags, mem, nilp, newErr>>
       ELSE LET m0 == [p \in DOMAIN mem \cup {ConfigFilePtr} |->
                          IF p = ConfigFilePtr THEN DefaultConfigPath ELSE mem[p]]
                w == genFlagSet(Walked(<<ConfigFlag>>, m0), target, tagKey)
            IN /\ pc' = IF w.panicked THEN "panicked" ELSE "new"
               /\ flags' = w.flags
               /\ mem' = w.mem
               /\ nilp' = w.nilp
               /\ newErr' = w.err
    /\ UNCHANGED <<target, tagKey, changed, walkPrefix, args, before, setFlags, raw,
                   applied, parseErr>>
    /\ UNCHANGED lvars

\* processStruct called on its own, as the package's tests do, on a fresh flag set
ProcessStructDirect ==
    /\ pc = "init"
    /\ target.kind = "ptr" /\ target.elem = "struct"
    /\ \E prefix \in Prefixes :
          LET w == processStruct(tagKey, Walked(<<>>, mem), target.fields, prefix, <<>>, 1)
          IN /\ pc' = IF w.panicked THEN "panicked" ELSE "walked"
             /\ flags' = w.flags
             /\ mem' = w.mem
             /\ nilp' = w.nilp
             /\ newErr' = w.err
             /\ walkPrefix' = prefix
    /\ UNCHANGED <<target, tagKey, changed, args, before, setFlags, raw, applied, parseErr>>
    /\ UNCHANGED lvars

\* the command-line parser meets one occurrence of a flag
ParseFlag ==
    /\ pc = "new" /\ newErr = NoErr
    /\ args < MaxArgs
    /\ \E k \in 1..Len(flags) : \E text \in CmdTexts(flags[k].typ) :
          LET r == FlagSetSet(flags, mem, changed, flags[k].name, text)
          IN /\ r.ok
             /\ mem' = r.mem
             /\ changed' = r.changed
    /\ args' = args + 1
    /\ UNCHANGED <<pc, target, tagKey, flags, nilp, newErr, walkPrefix, before, setFlags,
                   raw, applied, parseErr>>
    /\ UNCHANGED lvars

\* config.go:52-75, the body of ParseConfiguration met with the file `file`
Configure(file) ==
    /\ before' = mem
    /\ \E sf \in Snapshots(flags, mem, changed) :
          /\ setFlags' = sf
          /\ raw' = file
          /\ IF ReadFails(file)
             THEN /\ parseErr' = "could not read config file"
                  /\ UNCHANGED <<mem, nilp, applied>>
             ELSE LET u == IF file.kind = "doc"
                           THEN Unmarshal(target, file.doc, mem, nilp)
                           ELSE [mem |-> mem, nilp |-> nilp, ok |-> FALSE]
                  IN /\ nilp' = u.nilp
                     /\ IF DecodeFails(file, u.ok)
                        THEN /\ parseErr' = "could not parse config file"
                             /\ mem' = u.mem
                             /\ UNCHANGED applied
                        ELSE \E order \in Orders(DOMAIN sf) :
                                LET r == Reapply(flags, sf, order, 1,
                                                 [mem |-> u.mem, applied |-> <<>>, failed |-> ""],
                                                 changed)
                                IN /\ mem' = r.mem
                                   /\ applied' = r.applied
                                   /\ parseErr' = IF r.failed # "" THEN "could not set flag"
                                                                   ELSE ""
    /\ UNCHANGED <<target, tagKey, flags, changed, newErr, walkPrefix, args>>
    /\ UNCHANGED lvars

\* config.go:51-76
ParseConfiguration ==
    /\ pc = "new" /\ newErr = NoErr
    /\ pc' = "configured"
    /\ \E file \in Files(target) : Configure(file)

\* config.go:51-76, called once more after it returned nil, with the same file and the
\* same flags set
ParseConfigurationAgain ==
    /\ pc = "configured" /\ parseErr = ""
    /\ pc' = "reconfigured"
    /\ Configure(raw)

Next ==
    New \/ ProcessStructDirect \/ ParseFlag \/ ParseConfiguration \/ ParseConfigurationAgain

Spec == Init /\ [][Next]_vars

----------------------------------------------------------------------------
(* Properties of ParseConfiguration. *)

Configured == pc = "configured"

Succeeded == pc = "configured" /\ parseErr = ""

\* the storage a flag is bound to
PtrOf(name) == FlagNamed(flags, name).ptr

\* the storage of the flags the user set on the command line
SetPtrs == {PtrOf(n) : n \in changed}

\* the fields of the struct
Leaves == LeafPaths(target.fields, <<>>)

\* C1: every flag other than "config" that the user set on the command line holds, after
\* a successful ParseConfiguration, exactly the value the command line gave it.
C1_ExplicitFlagsWin ==
    Succeeded => \A n \in changed \ {"config"} : mem[PtrOf(n)] = before[PtrOf(n)]

\* C2 as stated: after a successful ParseConfiguration every field the file addresses
\* whose flag was not set on the command line holds the file's value.
C2_FileValueStands ==
    Succeeded => \A p \in DOMAIN raw.doc : p \notin SetPtrs => mem[p] = raw.doc[p].v

\* C2, amended: such a field holds the file's value, except that a map field holds the
\* file's entries together with the entries it held before under keys the file does not give.
C2_FileValueMerged ==
    Succeeded =>
        \A p \in DOMAIN raw.doc :
            p \notin SetPtrs =>
                IF FieldAt(target.fields, p).kind = "map"
                THEN /\ raw.doc[p].v \subseteq mem[p]
                     /\ \A kv \in mem[p] \ raw.doc[p].v :
                            kv \in before[p] /\ kv[1] \notin MapKeys(raw.doc[p].v)
                     /\ \A kv \in before[p] :
                            kv[1] \notin MapKeys(raw.doc[p].v) => kv \in mem[p]
                ELSE mem[p] = raw.doc[p].v

\* a successful run where the file addresses a slice and a map that held other, non-empty
\* values and whose flags the user did not set
C2_Witness ==
    /\ Succeeded
    /\ \E p, q \in DOMAIN raw.doc :
          /\ p \notin SetPtrs /\ q \notin SetPtrs
          /\ FieldAt(target.fields, p).kind = "map" /\ before[p] # {}
          /\ FieldAt(target.fields, q).kind = "slice" /\ before[q] # <<>>
          /\ mem[q] # before[q]

\* C3: a field absent from the file whose flag was not set on the command line still holds,
\* after a successful ParseConfiguration, the value it had when New generated the flags,
\* which is its flag's default.
C3_AbsentFieldKeepsDefault ==
    Succeeded =>
        \A p \in Leaves :
            (p \notin DOMAIN raw.doc /\ p \notin SetPtrs) =>
                /\ mem[p] = InitMem(target)[p]
                /\ \A k \in 1..Len(flags) : flags[k].ptr = p => flags[k].def = mem[p]

\* a successful run with a document and a command-line flag that both leave out a field
\* holding a non-zero value
C3_Witness ==
    /\ Succeeded
    /\ DOMAIN raw.doc # {} /\ changed # {}
    /\ \E p \in Leaves :
          /\ p \notin DOMAIN raw.doc /\ p \notin SetPtrs
          /\ mem[p] # ZeroOf(FieldAt(target.fields, p))
          /\ \E k \in 1..Len(flags) : flags[k].ptr = p

\* C4: once New has returned for a pointer to a struct, the first flag of the registry is
\* "config", short "c", default "./config.yml", no later flag has that name, and
\* ParseConfiguration neither snapshots nor re-applies "config".
C4_ConfigEntry ==
    (pc \in {"new", "configured"} /\ target.kind = "ptr" /\ target.elem = "struct") =>
        /\ Len(flags) >= 1
        /\ flags[1].name = "config" /\ flags[1].short = "c"
        /\ flags[1].def = DefaultConfigPath /\ flags[1].ptr = ConfigFilePtr
        /\ \A k \in 2..Len(flags) : flags[k].name # "config" /\ flags[k].ptr # ConfigFilePtr
        /\ "config" \notin DOMAIN setFlags
        /\ \A k \in 1..Len(applied) : applied[k] # "config"

\* a successful run after the user set --config and another flag
C4_Witness ==
    Succeeded /\ "config" \in changed /\ applied # <<>> /\ mem[ConfigFilePtr] # DefaultConfigPath

\* the file held a value of the wrong type
BadDoc == raw.kind = "doc" /\ \E p \in DOMAIN raw.doc : raw.doc[p].bad

\* C5: when the file cannot be read, ParseConfiguration returns "could not read config
\* file" and leaves the struct and every flag value as they were; when the file is read but
\* malformed, it returns "could not parse config file" and re-applies no snapshotted flag.
C5_FailFast ==
    Configured =>
        /\ raw.kind = "missing" =>
              /\ parseErr = "could not read config file"
              /\ mem = before
              /\ applied = <<>>
        /\ (raw.kind = "malformed" \/ BadDoc) =>
              /\ parseErr = "could not parse config file"
              /\ applied = <<>>
              /\ \A p \in DOMAIN mem :
                    mem[p] # before[p] => p \in DOMAIN raw.doc /\ ~raw.doc[p].bad

\* a run on a document with a value of the wrong type, after the user set a flag, in which
\* the decoder had already written another field
C5_Witness == Configured /\ BadDoc /\ DOMAIN setFlags # {} /\ mem # before


----------------------------------------------------------------------------
(* Properties of New and of the walk over the struct. *)

\* the tag key the walk reads names under
Key == IF tagKey = "" THEN "name" ELSE tagKey

RECURSIVE TagsAlong(_, _, _)
\* the values under a tag key of the fields on a path, outermost first
TagsAlong(fields, path, key) ==
    <<TagGet(fields[path[1]].tags, key)>> \o
    (IF Len(path) = 1 THEN <<>> ELSE TagsAlong(fields[path[1]].fields, Tail(path), key))

RECURSIVE Dotted(_)
\* the parts joined by "."
Dotted(parts) ==
    IF Len(parts) = 1 THEN parts[1] ELSE parts[1] \o "." \o Dotted(Tail(parts))

\* the name a dotted path gives the field at p
DottedName(p) ==
    Dotted((IF walkPrefix = "" THEN <<>> ELSE <<walkPrefix>>) \o TagsAlong(target.fields, p, Key))

\* the struct-typed fields that enclose the field at p
Enclosing(p) == {SubSeq(p, 1, n) : n \in 1..(Len(p) - 1)}

\* the field at p itself is exported and named under the tag key
OwnEligible(p) ==
    FieldAt(target.fields, p).exported /\ TagGet(FieldAt(target.fields, p).tags, Key) # ""

\* every struct-typed field that encloses p is exported and named under the tag key
Reached(p) == \A q \in Enclosing(p) : OwnEligible(q)

\* every struct-typed field that encloses p is exported
ReachedIfUntaggedDescends(p) == \A q \in Enclosing(p) : FieldAt(target.fields, q).exported

\* the flag type that corresponds to a Go type
FlagTypes ==
    [t \in {"string", "bool"} \cup IntKinds \cup UintKinds \cup FloatKinds |-> t] @@
    ("time.Duration" :> "duration") @@ ("[]string" :> "stringSlice") @@
    ("[]int" :> "intSlice") @@ ("map[string]string" :> "stringToString")

Supported(p) == FieldAt(target.fields, p).typ \in DOMAIN FlagTypes

\* the fields that are to get a flag
Eligible == {p \in Leaves : Reached(p) /\ OwnEligible(p)}

\* the flags bound to the field at p
FlagsOf(p) == {k \in 1..Len(flags) : flags[k].ptr = p}

PtrToStruct == target.kind = "ptr" /\ target.elem = "struct"

\* New has been called (its flag set starts with the "config" flag)
NewCalled ==
    \/ pc \in {"new", "configured"}
    \/ pc = "panicked" /\ (target.kind # "ptr" \/ (flags # <<>> /\ flags[1] = ConfigFlag))

\* the walk went through the whole struct
WalkDone == pc \in {"new", "walked", "configured"} /\ PtrToStruct /\ newErr = NoErr

ShortOf(p) == TagGet(FieldAt(target.fields, p).tags, "short")

\* the names and the short aliases the struct asks for are distinct, and none is the
\* name or the alias of the "config" flag
NoClash ==
    /\ \A p, q \in Eligible : p # q =>
          /\ DottedName(p) # DottedName(q)
          /\ ShortOf(p) = "" \/ ShortOf(p) # ShortOf(q)
    /\ \A p \in Eligible : DottedName(p) # "config" /\ ShortOf(p) # "c"

C7_DottedPath ==
    \A k \in 1..Len(flags) :
        flags[k].ptr # ConfigFilePtr =>
            /\ flags[k].ptr \in Leaves
            /\ FieldAt(target.fields, flags[k].ptr).kind # "struct"
            /\ flags[k].name = DottedName(flags[k].ptr)

\* the walk over Level1 started with the prefix "parent": one flag, three levels down
C7_Witness ==
    /\ pc = "walked" /\ walkPrefix = "parent" /\ Len(flags) = 1
    /\ flags[1].name = "parent.level2.level3.value" /\ flags[1].ptr = <<1, 1, 1>>

C9_UntaggedStructDescended ==
    WalkDone =>
        \A p \in Leaves :
            (ReachedIfUntaggedDescends(p) /\ OwnEligible(p) /\ Supported(p)) => FlagsOf(p) # {}

\* C9, amended: the walk skips a struct-typed field with no name as it skips any other
\* field with no name: no field below such a struct gets a flag, whatever its own tags.
C9_UntaggedStructSkipped ==
    \A p \in Leaves :
        (\E q \in Enclosing(p) : TagGet(FieldAt(target.fields, q).tags, Key) = "") =>
            FlagsOf(p) = {}

\* New returned nil for a struct with a named field and an exported struct-typed field
\* with no name that holds a named field
C9_Witness ==
    /\ WalkDone /\ pc = "new"
    /\ \E p, r \in Leaves :
          /\ Len(r) = 1 /\ FlagsOf(r) # {}
          /\ OwnEligible(p) /\ Supported(p) /\ FlagsOf(p) = {}
          /\ \E q \in Enclosing(p) :
                /\ FieldAt(target.fields, q).exported
                /\ TagGet(FieldAt(target.fields, q).tags, Key) = ""

----------------------------------------------------------------------------
(* Fields of types that have no flag. *)

RECURSIVE PathLess(_, _)
\* p comes before q in the order the walk visits fields
PathLess(p, q) ==
    /\ p # <<>> /\ q # <<>>
    /\ \/ p[1] < q[1]
       \/ p[1] = q[1] /\ PathLess(Tail(p), Tail(q))

\* the eligible fields of a type that has no flag
Rejected == {p \in Eligible : ~Supported(p)}

\* the first of them the walk meets
FirstRejected == CHOOSE p \in Rejected : \A q \in Rejected \ {p} : PathLess(p, q)

\* the error for a field of a type that has no flag
RejectionOf(f) ==
    CASE f.kind = "slice" -> FieldErr("unsupported slice type", f.typ, f.go)
      [] f.kind = "map" -> FieldErr("unsupported map type", f.typ, f.go)
      [] OTHER -> FieldErr("unsupported field type", f.kind, f.go)

C12_StringSliceMapNoOp ==
    (pc \in {"new", "walked"} /\ PtrToStruct) =>
        \A p \in Eligible :
            FieldAt(target.fields, p).typ = "map[string][]string" =>
                /\ newErr = NoErr
                /\ FlagsOf(p) = {}
                /\ \A q \in Eligible : (Supported(q) /\ PathLess(p, q)) => FlagsOf(q) # {}

----------------------------------------------------------------------------
(* Package logger: levels, types, options and New (logger.go:18-122, and   *)
(* WithLogLevel of the alternate variant).                                 *)

\* the most options one call of New is given
MaxOpts == 2

\* the most calls made on the Loggers of one run
MaxCalls == 2

\* the most WithTag / WithTags calls of one run
MaxDerives == 3

LevelError == 0
LevelWarn == 1
LevelInfo == 2
LevelDebug == 3

defaultLevel == LevelInfo

TypeSLog == 0
TypeZap == 1

defaultType == TypeSLog

\* a level or a type that is not defined, as logger_test.go writes it: Level(99), Type(99)
Undefined == 99

\* the nil value of the interface wrappers.Log
NilImpl == "nil"

\* a slice: the address of its backing array (0 when it has none), its length and capacity
SliceOf(arr, len, cap) == [arr |-> arr, len |-> len, cap |-> cap]

\* an option, as the closure New applies
Option(op, n, impl) == [op |-> op, n |-> n, impl |-> impl]

WithError == Option("WithError", 0, NilImpl)
WithWarn == Option("WithWarn", 0, NilImpl)
WithDebug == Option("WithDebug", 0, NilImpl)
WithCustomLogger(logger) == Option("WithCustomLogger", 0, logger)
WithType(typ) == Option("WithType", typ, NilImpl)
WithLogLevel(level) == Option("WithLogLevel", level, NilImpl)

\* logger_test.go:67-69, an option written by the caller: func(l *Logger) { l.typ = typ }
SetType(typ) == Option("SetType", typ, NilImpl)

\* the options, had WithType and WithLogLevel stored whatever they were given
applyOptionUnguarded(o, l) ==
    CASE o.op = "WithError" -> [l EXCEPT !.level = LevelDebug]
      [] o.op = "WithWarn" -> [l EXCEPT !.level = LevelDebug]
      [] o.op = "WithDebug" -> [l EXCEPT !.level = LevelDebug]
      [] o.op = "WithCustomLogger" -> [l EXCEPT !.impl = o.impl]
      [] o.op = "WithType" -> [l EXCEPT !.typ = o.n]
      [] o.op = "WithLogLevel" -> [l EXCEPT !.level = o.n]
      [] o.op = "SetType" -> [l EXCEPT !.typ = o.n]

\* what an option does to the Logger it is applied to
applyOption(o, l) ==
    CASE o.op = "WithError" -> [l EXCEPT !.level = LevelDebug]
      [] o.op = "WithWarn" -> [l EXCEPT !.level = LevelDebug]
      [] o.op = "WithDebug" -> [l EXCEPT !.level = LevelDebug]
      [] o.op = "WithCustomLogger" -> [l EXCEPT !.impl = o.impl]
      [] o.op = "WithType" -> IF o.n <= TypeZap THEN [l EXCEPT !.typ = o.n] ELSE l
      [] o.op = "WithLogLevel" -> IF o.n <= LevelDebug THEN [l EXCEPT !.level = o.n] ELSE l
      [] o.op = "SetType" -> [l EXCEPT !.typ = o.n]

RECURSIVE applyOptions(_, _, _)
\* logger.go:68-70
applyOptions(os, k, l) ==
    IF k > Len(os) THEN l ELSE applyOptions(os, k + 1, applyOption(os[k], l))

\* logger.go:72-77 had every type been let through
typeUnchecked(typ) == FALSE

\* logger.go:72-77: the switch panics on a type it does not know
typePanics(typ) == typ \notin {TypeSLog, TypeZap}

\* logger.go:60-79
loggerNew(os) ==
    LET logger == applyOptions(os, 1,
                      [level |-> defaultLevel, typ |-> defaultType, impl |-> NilImpl,
                       tags |-> SliceOf(0, 0, 0)])
    IN [panicked |-> typePanics(logger.typ), logger |-> logger]

\* the options a caller can give
Options ==
    {WithError, WithWarn, WithDebug, WithCustomLogger("stub"),
     WithLogLevel(LevelError), WithLogLevel(LevelWarn), WithLogLevel(Undefined),
     WithType(TypeZap), WithType(Undefined), SetType(Undefined)}

OptionLists == UNION {[1..n -> Options] : n \in 0..MaxOpts}

----------------------------------------------------------------------------
(* Tag slices (logger.go:43-47, 124-163 and the alternate variant). A tag   *)
(* slice is a window on a backing array: two slices on one array share     *)
(* what is written through either.                                         *)

\* a value of type any: whether it is a string, and how it prints
Str(v) == [str |-> TRUE, v |-> v]
Num(v) == [str |-> FALSE, v |-> v]

Tag(key, val) == [Key |-> key, Value |-> val]

\* the zero value of Tag
ZeroTag == Tag("", Num(""))

\* an address no array of the heap has
FreeAddr(hp) == CHOOSE a \in 1..(Cardinality(DOMAIN hp) + 1) : a \notin DOMAIN hp

\* make([]Tag, n)
makeSlice(hp, n) ==
    IF n = 0 THEN [heap |-> hp, s |-> SliceOf(0, 0, 0)]
    ELSE LET a == FreeAddr(hp)
         IN [heap |-> (a :> [k \in 1..n |-> ZeroTag]) @@ hp, s |-> SliceOf(a, n, n)]

\* copy(dst, src)
copy(hp, dst, src) ==
    LET n == IF dst.len < src.len THEN dst.len ELSE src.len
    IN IF n = 0 THEN hp
       ELSE [hp EXCEPT ![dst.arr] = [k \in 1..Len(@) |-> IF k <= n THEN hp[src.arr][k] ELSE @[k]]]

\* runtime.growslice for one more element: the capacity doubles
growCap(cap) == IF cap = 0 THEN 1 ELSE cap + cap

\* append(s, tag): in place when the array has room, in a new array otherwise
append(hp, s, tag) ==
    IF s.len < s.cap
    THEN [heap |-> [hp EXCEPT ![s.arr][s.len + 1] = tag], s |-> [s EXCEPT !.len = s.len + 1]]
    ELSE LET a == FreeAddr(hp)
             arr == [k \in 1..growCap(s.cap) |->
                        IF k <= s.len THEN hp[s.arr][k]
                        ELSE IF k = s.len + 1 THEN tag ELSE ZeroTag]
         IN [heap |-> (a :> arr) @@ hp, s |-> SliceOf(a, s.len + 1, growCap(s.cap))]

\* the tags a slice shows
TagsOf(hp, s) == IF s.len = 0 THEN <<>> ELSE SubSeq(hp[s.arr], 1, s.len)

\* the arrays that some Logger still points to (the others are garbage)
collect(hp, ls) ==
    [a \in {ls[i].tags.arr : i \in 1..Len(ls)} \cap DOMAIN hp |-> hp[a]]

\* the alternate variant, part_002:114 and 132: tags: l.tags
deriveTagsShared(hp, tags) == [heap |-> hp, s |-> tags]

\* logger.go:129-131 and 148-150 had the Logger literal taken the slice as it is
deriveTagsUncopied(hp, tags) == [heap |-> hp, s |-> tags]

\* logger.go:129-131 and 148-150: tags: make([]Tag, len(l.tags)); copy(logger.tags, l.tags)
deriveTags(hp, tags) ==
    LET m == makeSlice(hp, tags.len)
    IN [heap |-> copy(m.heap, m.s, tags), s |-> m.s]

\* the tag slice a derived Logger starts with, in either variant
startTags(v, hp, tags) ==
    IF v = "part_002" THEN deriveTagsShared(hp, tags) ELSE deriveTags(hp, tags)

\* logger.go:126-130 and 145-149 had the literal left the level out
derivedAtDefault(l, tags) ==
    [level |-> defaultLevel, typ |-> TypeSLog, impl |-> l.impl, tags |-> tags]

\* the Logger literal of logger.go:126-130 and 145-149: impl and level of l; typ is not set
derived(l, tags) == [level |-> l.level, typ |-> TypeSLog, impl |-> l.impl, tags |-> tags]

\* logger.go:125-137
WithTag(v, hp, l, key, val) ==
    LET d == startTags(v, hp, l.tags)
        a == append(d.heap, d.s, Tag(key, val))
    IN [heap |-> a.heap, ok |-> TRUE, logger |-> derived(l, a.s), err |-> "", at |-> 0]

RECURSIVE withTagsLoop(_, _, _, _, _)
\* logger.go:152-162, i counting from 0 as in the source; err and at are the message
\* "argument %d is not a string" and its number
withTagsLoop(hp, l, tags, argv, i) ==
    IF ~(i < Len(argv) - 1)
    THEN [heap |-> hp, ok |-> TRUE, logger |-> derived(l, tags), err |-> "", at |-> 0]
    ELSE IF ~argv[i + 1].str
    THEN [heap |-> hp, ok |-> FALSE, logger |-> l, err |-> "argument is not a string", at |-> i]
    ELSE LET a == append(hp, tags, Tag(argv[i + 1].v, argv[i + 2]))
         IN withTagsLoop(a.heap, l, a.s, argv, i + 2)

\* logger.go:141-144 had the count of the arguments not been looked at
oddCountUnchecked(argv) == FALSE

\* logger.go:142
oddCount(argv) == Len(argv) % 2 # 0

\* logger.go:141-163
WithTags(v, hp, l, argv) ==
    IF oddCount(argv)
    THEN [heap |-> hp, ok |-> FALSE, logger |-> l, err |-> "odd number of arguments", at |-> 0]
    ELSE LET d == startTags(v, hp, l.tags)
         IN withTagsLoop(d.heap, l, d.s, argv, 0)

----------------------------------------------------------------------------
(* The log methods and Shutdown (logger.go:81-84, 165-198), and the        *)
(* back-end of logger_test.go (stubLog).                                   *)

Methods == {"Info", "Debug", "Warn", "Error", "Fatal"}

Messages == {"m"}

\* context.Background() and a context derived from it
Contexts == {"background", "withValue"}

\* what the back-end's Shutdown returns: nil or an error
ShutdownErrs == {"", "shutdown error"}

\* logger.go:165-198 had each level let through only its own calls
ForwardsOwnLevel(level, method) ==
    CASE method = "Info" -> level = LevelInfo
      [] method = "Debug" -> level = LevelDebug
      [] method = "Warn" -> level = LevelWarn
      [] method = "Error" -> level = LevelError
      [] method = "Fatal" -> TRUE

\* logger.go:165-198: the test each method makes before it calls the back-end
Forwards(level, method) ==
    CASE method = "Info" -> level >= LevelInfo
      [] method = "Debug" -> level >= LevelDebug
      [] method = "Warn" -> level >= LevelWarn
      [] method = "Error" -> level >= LevelError
      [] method = "Fatal" -> TRUE

\* logger_test.go:18-36: the back-end notes the method and the message
stubCall(impl, method, msg) == [impl |-> impl, text |-> method \o ":" \o msg]

\* logger.go:82-84 had the back-end's error been wrapped
ShutdownWrapped(backendErr) ==
    IF backendErr = "" THEN "" ELSE "could not shut down: " \o backendErr

\* logger.go:82-84: what Logger.Shutdown returns, given what the back-end returned
Shutdown(backendErr) == backendErr

\* a call made on Logger number on, and what it returned; res is the number of the Logger
\* it returned, if any
Call(on, method, arg, ret, res) ==
    [on |-> on, method |-> method, arg |-> arg, ret |-> ret, res |-> res]

\* package config is not in use
ConfigIdle ==
    /\ pc = "idle" /\ target = [kind |-> "none", elem |-> "", name |-> "", fields |-> <<>>]
    /\ tagKey = "" /\ flags = <<>> /\ mem = <<>> /\ nilp = {} /\ changed = {}
    /\ newErr = NoErr /\ walkPrefix = "" /\ args = 0 /\ before = <<>> /\ setFlags = <<>>
    /\ raw = NoFile /\ applied = <<>> /\ parseErr = ""

\* before New is called
LoggerInit ==
    /\ ConfigIdle
    /\ lpc = "init"
    /\ variant = "logger.go"
    /\ opts \in OptionLists
    /\ loggers = <<>> /\ parent = <<>> /\ heap = <<>>
    /\ sent = <<>> /\ calls = <<>> /\ shutdownArgs = <<>>

\* logger.go:60-79
LoggerNew ==
    /\ lpc = "init"
    /\ LET r == loggerNew(opts)
       IN IF r.panicked
          THEN lpc' = "panicked" /\ UNCHANGED <<loggers, parent>>
          ELSE /\ lpc' = "ready"
               /\ loggers' = <<r.logger>>
               /\ parent' = <<[of |-> 0, tags |-> <<>>]>>
    /\ UNCHANGED <<variant, opts, heap, sent, calls, shutdownArgs>>
    /\ UNCHANGED cvars

\* logger.go:165-198: Info, Debug, Warn, Error or Fatal called on a Logger; a call that
\* reaches a nil back-end panics
LogCall ==
    /\ lpc = "ready" /\ Len(sent) < MaxCalls
    /\ \E on \in 1..Len(loggers) : \E method \in Methods : \E msg \in Messages :
          LET l == loggers[on]
          IN IF ~Forwards(l.level, method)
             THEN /\ sent' = Append(sent, Call(on, method, msg, "", 0))
                  /\ UNCHANGED <<lpc, calls>>
             ELSE IF l.impl = NilImpl
             THEN /\ sent' = Append(sent, Call(on, method, msg, "panic", 0))
                  /\ lpc' = "panicked"
                  /\ UNCHANGED calls
             ELSE /\ sent' = Append(sent, Call(on, method, msg, "", 0))
                  /\ calls' = Append(calls, stubCall(l.impl, method, msg))
                  /\ UNCHANGED lpc
    /\ UNCHANGED <<variant, opts, loggers, parent, heap, shutdownArgs>>
    /\ UNCHANGED cvars

\* logger.go:82-84: Shutdown called on a Logger
ShutdownCall ==
    /\ lpc = "ready" /\ Len(sent) < MaxCalls
    /\ \E on \in 1..Len(loggers) : \E ctx \in Contexts : \E backendErr \in ShutdownErrs :
          LET l == loggers[on]
          IN IF l.impl = NilImpl
             THEN /\ sent' = Append(sent, Call(on, "Shutdown", ctx, "panic", 0))
                  /\ lpc' = "panicked"
                  /\ UNCHANGED shutdownArgs
             ELSE /\ sent' = Append(sent, Call(on, "Shutdown", ctx, Shutdown(backendErr), 0))
                  /\ shutdownArgs' = Append(shutdownArgs,
                                            [impl |-> l.impl, ctx |-> ctx, ret |-> backendErr])
                  /\ UNCHANGED lpc
    /\ UNCHANGED <<variant, opts, loggers, parent, heap, calls>>
    /\ UNCHANGED cvars

LoggerNext == LoggerNew \/ LogCall \/ ShutdownCall

LoggerSpec == LoggerInit /\ [][LoggerNext]_vars

----------------------------------------------------------------------------
(* Deriving Loggers: WithTag and WithTags called on the Logger New returned *)
(* and on the Loggers derived from it.                                     *)

Variants == {"logger.go", "part_002"}

\* the option lists of the Loggers that tags are added to
TagOptionLists ==
    {<<WithCustomLogger("stub")>>,
     <<WithCustomLogger("other"), WithLogLevel(LevelWarn)>>,
     <<WithCustomLogger("stub"), WithType(TypeZap)>>}

Keys == {"a", "b"}

TagValues == {Num("42")}

\* the argument lists of WithTags: logger_test.go:143, 171, 175, three pairs, none, and a
\* key that is no string after a pair that is well formed
ArgLists ==
    {<<Str("key1"), Str("value1"), Str("key2"), Num("123")>>,
     <<Str("x"), Num("1"), Str("y"), Num("2"), Str("z"), Num("3")>>,
     <<>>,
     <<Str("onlyKey")>>,
     <<Num("100"), Str("value")>>,
     <<Str("key1"), Str("value1"), Num("7"), Str("value2")>>,
     <<Str("key1"), Str("value1"), Str("key2")>>}

\* a Logger as New returned it
TagInit ==
    /\ ConfigIdle
    /\ lpc = "ready"
    /\ variant \in Variants
    /\ opts \in TagOptionLists
    /\ loggers = <<loggerNew(opts).logger>>
    /\ parent = <<[of |-> 0, tags |-> <<>>]>>
    /\ heap = <<>>
    /\ sent = <<>> /\ calls = <<>> /\ shutdownArgs = <<>>

\* the state after a derivation returned r for the call c on Logger number on
Derived(on, r, c) ==
    /\ loggers' = IF r.ok THEN Append(loggers, r.logger) ELSE loggers
    /\ heap' = collect(r.heap, loggers')
    /\ parent' = IF r.ok
                 THEN Append(parent, [of |-> on, tags |-> TagsOf(r.heap, r.logger.tags)])
                 ELSE parent
    /\ sent' = Append(sent, [c EXCEPT !.ret = r.err,
                                      !.res = IF r.ok THEN Len(loggers) + 1 ELSE 0])

\* logger.go:125-137 (part_002:110-121)
WithTagCall ==
    /\ lpc = "ready" /\ Len(sent) < MaxDerives
    /\ \E on \in 1..Len(loggers) : \E key \in Keys : \E val \in TagValues :
          Derived(on, WithTag(variant, heap, loggers[on], key, val),
                  Call(on, "WithTag", <<Str(key), val>>, "", 0))
    /\ UNCHANGED <<lpc, variant, opts, calls, shutdownArgs>>
    /\ UNCHANGED cvars

\* logger.go:141-163 (part_002:125-146)
WithTagsCall ==
    /\ lpc = "ready" /\ Len(sent) < MaxDerives
    /\ \E on \in 1..Len(loggers) : \E argv \in ArgLists :
          Derived(on, WithTags(variant, heap, loggers[on], argv),
                  Call(on, "WithTags", argv, "", 0))
    /\ UNCHANGED <<lpc, variant, opts, calls, shutdownArgs>>
    /\ UNCHANGED cvars

TagNext == WithTagCall \/ WithTagsCall

TagSpec == TagInit /\ [][TagNext]_vars

----------------------------------------------------------------------------
(* Properties of the log methods, of the options and of New. *)

\* how severe the calls of a method are: the least level that lets them through
Severity(method) ==
    CASE method = "Error" -> LevelError
      [] method = "Warn" -> LevelWarn
      [] method = "Info" -> LevelInfo
      [] method = "Debug" -> LevelDebug

\* a call made on a Logger that has a back-end
OnBackend(c) == loggers[c.on].impl # NilImpl

RECURSIVE ExpectedCalls(_)
\* what the back-end is to have received after the first k calls: every Fatal call and
\* every call whose severity the Logger's level reaches, in order, each once, under the
\* name of its method and with its message
ExpectedCalls(k) ==
    IF k = 0 THEN <<>>
    ELSE LET c == sent[k]
             due == /\ c.method \in Methods
                    /\ OnBackend(c)
                    /\ c.method = "Fatal" \/ loggers[c.on].level >= Severity(c.method)
         IN IF due
            THEN Append(ExpectedCalls(k - 1),
                        [impl |-> loggers[c.on].impl, text |-> c.method \o ":" \o c.arg])
            ELSE ExpectedCalls(k - 1)

NamedLevels == [WithError |-> LevelError, WithWarn |-> LevelWarn, WithDebug |-> LevelDebug]

\* the positions of the options that set the level
LevelOptions ==
    {k \in 1..Len(opts) :
        \/ opts[k].op \in DOMAIN NamedLevels
        \/ opts[k].op = "WithLogLevel" /\ opts[k].n <= LevelDebug}

\* the texts the back-end notes for calls more verbose than a level
Above(level) ==
    {m \o ":" \o msg : m \in {x \in Methods \ {"Fatal"} : Severity(x) > level}, msg \in Messages}

\* C14: a Logger built by New whose level was last set by WithError, WithWarn or WithDebug
\* is at the level Error, Warn or Debug, and no call more verbose than that level reaches
\* its back-end.
C14_LevelOptions ==
    (loggers # <<>> /\ LevelOptions # {}) =>
        LET last == CHOOSE k \in LevelOptions : \A j \in LevelOptions : j <= k
        IN opts[last].op \in DOMAIN NamedLevels =>
              /\ loggers[1].level = NamedLevels[opts[last].op]
              /\ \A k \in 1..Len(calls) :
                    calls[k].text \notin Above(NamedLevels[opts[last].op])

\* the type the options resolve to
ResolvedType ==
    LET typed == {k \in 1..Len(opts) :
                     \/ opts[k].op = "SetType"
                     \/ opts[k].op = "WithType" /\ opts[k].n <= TypeZap}
    IN IF typed = {} THEN defaultType
       ELSE opts[CHOOSE k \in typed : \A j \in typed : j <= k].n

\* C19: New panics, and returns no Logger, exactly when the type that all the options, in
\* order, resolve to is neither TypeSLog nor TypeZap; with no options the Logger it
\* returns has the level Info, the type TypeSLog and no tags.
C19_TypeValidated ==
    lpc # "init" =>
        /\ loggers = <<>> <=> ResolvedType \notin {TypeSLog, TypeZap}
        /\ loggers = <<>> => lpc = "panicked"
        /\ loggers # <<>> => loggers[1].typ = ResolvedType
        /\ (opts = <<>> /\ loggers # <<>>) =>
              /\ loggers[1].level = LevelInfo /\ loggers[1].typ = TypeSLog
              /\ TagsOf(heap, loggers[1].tags) = <<>>

\* New panicked on a type that the last of two type options made undefined
C19_Witness ==
    /\ lpc = "panicked" /\ loggers = <<>>
    /\ opts = <<WithType(TypeZap), SetType(Undefined)>>

\* C20: on a Logger built by New with a custom back-end and nothing else, one call of
\* Info, Debug, Warn, Error or Fatal with message m leaves the back-end with exactly one
\* call, of the same name, carrying m.
C20_DefaultsForwardAll ==
    (opts = <<WithCustomLogger("stub")>> /\ Len(sent) = 1 /\ sent[1].method \in Methods) =>
        calls = <<stubCall("stub", sent[1].method, sent[1].arg)>>

RECURSIVE ExpectedShutdowns(_)
\* what the back-end is to have noted after the first k calls: for each Shutdown call, in
\* order, its context and the error the call returned
ExpectedShutdowns(k) ==
    IF k = 0 THEN <<>>
    ELSE LET c == sent[k]
         IN IF c.method = "Shutdown" /\ OnBackend(c)
            THEN Append(ExpectedShutdowns(k - 1),
                        [impl |-> loggers[c.on].impl, ctx |-> c.arg, ret |-> c.ret])
            ELSE ExpectedShutdowns(k - 1)

\* C18: each Shutdown call on a Logger with a back-end reaches the back-end's Shutdown
\* once, with the same context, and returns what the back-end returned.
C18_ShutdownDelegated == shutdownArgs = ExpectedShutdowns(Len(sent))

\* two Shutdown calls: the back-end returned an error for one context and nil for the other
C18_Witness ==
    /\ Len(sent) = 2 /\ Len(shutdownArgs) = 2
    /\ sent[1].method = "Shutdown" /\ sent[1].arg = "withValue" /\ sent[1].ret = "shutdown error"
    /\ sent[2].method = "Shutdown" /\ sent[2].arg = "background" /\ sent[2].ret = ""

----------------------------------------------------------------------------
(* Properties of WithTag and WithTags in logger.go. *)

\* the tags Logger number i shows now
Tags(i) == TagsOf(heap, loggers[i].tags)

\* the derivations made so far
Derivations == {k \in 1..Len(sent) : sent[k].method \in {"WithTag", "WithTags"}}

\* Logger j was derived, in one or more steps, from Logger i
RECURSIVE DescendsFrom(_, _)
DescendsFrom(j, i) ==
    parent[j].of # 0 /\ (parent[j].of = i \/ DescendsFrom(parent[j].of, i))

\* C15: in logger.go, whatever WithTag and WithTags calls were made, on a Logger and on the
\* Loggers derived from it, calls that failed among them, every Logger shows the tags it
\* had when it was made, as many and the same; and no two Loggers share a backing array.
C15_TagsNotAliased ==
    variant = "logger.go" =>
        /\ \A i \in 1..Len(loggers) : Tags(i) = parent[i].tags
        /\ \A i, j \in 1..Len(loggers) :
              (i # j /\ loggers[i].tags.arr # 0) => loggers[i].tags.arr # loggers[j].tags.arr

\* a Logger with tags from which a Logger was derived, and on which a WithTags call then
\* failed after a well-formed pair
C15_Witness ==
    /\ variant = "logger.go"
    /\ \E p, c \in 1..Len(loggers) :
          /\ Tags(p) # <<>> /\ DescendsFrom(c, p)
          /\ \E j, k \in Derivations :
                /\ sent[j].res = c /\ j < k
                /\ sent[k].on = p /\ sent[k].res = 0 /\ sent[k].ret = "argument is not a string"
                /\ Len(sent[k].arg) = 4

\* the tags an argument list asks for, in the order of the arguments
RECURSIVE PairsOf(_)
PairsOf(argv) ==
    IF Len(argv) < 2 THEN <<>>
    ELSE <<Tag(argv[1].v, argv[2])>> \o PairsOf(SubSeq(argv, 3, Len(argv)))

\* an argument list WithTags is to accept: pairs whose first members are strings
WellFormed(argv) ==
    Len(argv) % 2 = 0 /\ \A j \in 1..Len(argv) : j % 2 = 1 => argv[j].str

\* C16: in logger.go, WithTag(k, v) on a Logger with tags T returns a new Logger with the
\* tags T followed by (k, v); WithTags with well-formed arguments returns a new Logger with
\* T followed by the pairs in the order of the arguments; the new Logger has the back-end
\* and the level of the Logger it was derived from.
C16_DerivedContents ==
    variant = "logger.go" =>
        \A k \in Derivations :
            LET c == sent[k]
            IN (c.method = "WithTag" \/ WellFormed(c.arg)) =>
                  /\ c.res \in 2..Len(loggers) /\ c.res # c.on
                  /\ \A j \in Derivations : j # k => sent[j].res # c.res
                  /\ parent[c.res].of = c.on
                  /\ Tags(c.res) = Tags(c.on) \o PairsOf(c.arg)
                  /\ loggers[c.res].impl = loggers[c.on].impl
                  /\ loggers[c.res].level = loggers[c.on].level

\* WithTags with two pairs, called on a Logger at level Warn that had a tag
C16_Witness ==
    /\ variant = "logger.go"
    /\ \E k \in Derivations :
          /\ sent[k].method = "WithTags" /\ Len(sent[k].arg) = 4 /\ sent[k].res # 0
          /\ Tags(sent[k].on) # <<>> /\ Len(Tags(sent[k].res)) = Len(Tags(sent[k].on)) + 2
          /\ loggers[sent[k].res].level = LevelWarn

\* C17: in logger.go, a WithTags call whose arguments are odd in number, or have anything
\* but a string where a key stands, after well-formed pairs or not, returns an error and
\* no Logger and does not panic; the Logger it was called on keeps its tags, its level and
\* its back-end.
C17_ArgumentErrors ==
    variant = "logger.go" =>
        /\ \A k \in Derivations :
              (sent[k].method = "WithTags" /\ ~WellFormed(sent[k].arg)) =>
                  /\ sent[k].ret # "" /\ sent[k].res = 0
                  /\ Len(sent[k].arg) % 2 # 0 => sent[k].ret = "odd number of arguments"
        /\ Derivations # {} => lpc = "ready"
        /\ Len(loggers) = 1 + Cardinality({k \in Derivations : sent[k].res # 0})
        /\ loggers[1] = loggerNew(opts).logger
        /\ \A i \in 1..Len(loggers) :
              /\ Tags(i) = parent[i].tags
              /\ loggers[i].level = loggers[1].level /\ loggers[i].impl = loggers[1].impl

\* on a Logger with tags, a WithTags call with one argument failed and a WithTags call with
\* a number for its second key failed
C17_Witness ==
    /\ variant = "logger.go"
    /\ \E j, k \in Derivations :
          /\ sent[j].on = sent[k].on /\ Tags(sent[k].on) # <<>>
          /\ sent[j].ret = "odd number of arguments" /\ Len(sent[j].arg) = 1
          /\ sent[k].ret = "argument is not a string" /\ Len(sent[k].arg) = 4
          /\ sent[j].res = 0 /\ sent[k].res = 0

----------------------------------------------------------------------------
(* Further properties of ParseConfiguration and of the walk. *)

CollectionTypes == {"stringSlice", "intSlice", "stringToString"}

C22_SecondRunSame ==
    pc = "reconfigured" => parseErr = "" /\ \A p \in Leaves : mem[p] = before[p]


\* C23: when the struct has an eligible field of a type with no flag, the walk returns
\* the error for the first one it meets; each eligible field before it, in the order of
\* the walk, has its one flag, and no field after it has a flag; New returns that
\* registry, "config" first, with the error.
C23_NoRollback ==
    (pc \in {"new", "walked"} /\ PtrToStruct /\ Rejected # {}) =>
        /\ newErr = RejectionOf(FieldAt(target.fields, FirstRejected))
        /\ \A p \in Eligible :
              /\ PathLess(p, FirstRejected) => Cardinality(FlagsOf(p)) = 1
              /\ ~PathLess(p, FirstRejected) => FlagsOf(p) = {}
        /\ pc = "new" => flags[1] = ConfigFlag

\* New returned an error for the second of three fields: the first has a flag, the third
\* has none
C23_Witness ==
    /\ pc = "new" /\ newErr # NoErr /\ Len(flags) = 2
    /\ \E p, q \in Eligible :
          /\ PathLess(p, FirstRejected) /\ FlagsOf(p) # {}
          /\ PathLess(FirstRejected, q) /\ Supported(q) /\ FlagsOf(q) = {}


\* the walk is over (New or processStruct returned or panicked) and nothing else was called
JustWalked == pc \in {"new", "walked", "panicked"} /\ args = 0

\* C24: the default of every generated flag is the value its field held when the caller
\* handed the struct over: the elements of a filled slice in their order, the pairs of a
\* filled map, the zero value of a zeroed field, and the empty map for a nil map.
C24_DefaultsFromStruct ==
    \A k \in 1..Len(flags) :
        flags[k].ptr # ConfigFilePtr =>
            /\ flags[k].def = InitMem(target)[flags[k].ptr]
            /\ (flags[k].typ = "stringToString" /\ flags[k].ptr \in InitNil(target)) =>
                  flags[k].def = {}

\* New returned for a struct with a filled []string, a filled map and a non-zero int
C24_Witness ==
    /\ pc = "new" /\ newErr = NoErr
    /\ \E i, j, k \in 1..Len(flags) :
          /\ flags[i].typ = "stringSlice" /\ flags[i].def # <<>>
          /\ flags[j].typ = "stringToString" /\ flags[j].def # {}
          /\ flags[k].typ = "int" /\ flags[k].def # 0

\* C25 as stated: after New or processStruct returned, with an error or without, every
\* field of the struct holds what it held before the call.
C25_StructUntouched ==
    JustWalked =>
        /\ \A p \in Leaves : mem[p] = InitMem(target)[p]
        /\ nilp = InitNil(target)

\* C25, amended: after New or processStruct returned, every field holds the elements it
\* held before the call; a slice or map field that got a flag and was nil is now empty
\* and not nil; a nil field that got no flag is still nil.
C25_ValuesKeptNilReplaced ==
    JustWalked =>
        /\ \A p \in Leaves : mem[p] = InitMem(target)[p]
        /\ nilp = {p \in InitNil(target) : FlagsOf(p) = {}}

\* New returned nil for a struct whose slices and map were nil and are nil no more
C25_Witness ==
    /\ pc = "new" /\ newErr = NoErr
    /\ Cardinality(InitNil(target)) > 1 /\ nilp = {}
    /\ \A p \in InitNil(target) : FlagsOf(p) # {} /\ mem[p] = InitMem(target)[p]


RECURSIVE SetValues(_, _)
\* the values flag f can hold after one to n occurrences on the command line
SetValues(f, n) ==
    IF n = 0 THEN {}
    ELSE LET prev == SetValues(f, n - 1)
         IN prev \cup {ValueSet(f.typ, f.def, FALSE, t).v : t \in CmdTexts(f.typ)}
                 \cup {ValueSet(f.typ, v, TRUE, t).v : v \in prev, t \in CmdTexts(f.typ)}

\* what the storage p held when the walk returned
Walked0(p) == IF p = ConfigFilePtr THEN DefaultConfigPath ELSE InitMem(target)[p]

\* C26: a flag and its field are one storage. After any flag parses the field of every
\* flag that was set holds a value Set gave it and every other field holds what it held
\* before; and whenever ParseConfiguration reads a set flag through Value.String(), after
\* flag parses and (on a second call) after a file decode, it reads the text of the
\* field's current value.
C26_LiveBinding ==
    /\ (pc = "new" /\ newErr = NoErr) =>
          /\ \A n \in changed : mem[PtrOf(n)] \in SetValues(FlagNamed(flags, n), args)
          /\ \A p \in DOMAIN mem \ SetPtrs : mem[p] = Walked0(p)
    /\ pc \in {"configured", "reconfigured"} =>
          \A n \in DOMAIN setFlags :
              setFlags[n] \in ValueStrings(FlagNamed(flags, n).typ, before[PtrOf(n)])

\* ParseConfiguration ran twice with a document; a set flag was read back after the decode
\* and a field whose flag was not set carries the document's value
C26_Witness ==
    /\ pc = "reconfigured" /\ raw.kind = "doc"
    /\ \E n \in DOMAIN setFlags : before[PtrOf(n)] # Walked0(PtrOf(n))
    /\ \E p \in DOMAIN raw.doc : p \notin SetPtrs /\ mem[p] # Walked0(p)


\* an option of the package given a value its type does not define
UndefinedValue(o) ==
    \/ o.op = "WithLogLevel" /\ o.n > LevelDebug
    \/ o.op = "WithType" /\ o.n > TypeZap

DefinedValue(o) == ~UndefinedValue(o)

\* every option is one the package exports
PackageOptions == \A k \in 1..Len(opts) : opts[k].op # "SetType"

\* C27: New called with options of the package only returns a Logger, without a panic,
\* whose level is one of Error, Warn, Info, Debug and whose type is TypeSLog or TypeZap,
\* and it is the Logger the same options give once every WithLogLevel and WithType with an
\* undefined value is left out.
C27_UndefinedIgnored ==
    (lpc # "init" /\ PackageOptions) =>
        /\ loggers # <<>>
        /\ loggers[1].level \in {LevelError, LevelWarn, LevelInfo, LevelDebug}
        /\ loggers[1].typ \in {TypeSLog, TypeZap}
        /\ loggers[1] = loggerNew(SelectSeq(opts, DefinedValue)).logger

\* New returned the Logger of the defaults for an undefined level and an undefined type
C27_Witness ==
    /\ lpc = "ready"
    /\ opts = <<WithLogLevel(Undefined), WithType(Undefined)>>
    /\ loggers[1].level = LevelInfo /\ loggers[1].typ = TypeSLog


\* C28: in the alternate variant, whatever WithTag and WithTags calls were made, calls
\* that failed among them, every Logger shows the tags it had when it was made: a second
\* derivation from a Logger changes no tag of a Logger derived from it before, and a
\* WithTags call that fails on a later key changes no tag of any Logger.
C28_TagsOwned ==
    variant = "part_002" => \A i \in 1..Len(loggers) : Tags(i) = parent[i].tags

\* C29: New, whatever options of the package it is given, returns a Logger that has a
\* back-end, and no call of Info, Debug, Warn, Error, Fatal or Shutdown on it faults.
C29_BackendInstalled ==
    (lpc # "init" /\ PackageOptions) =>
        /\ loggers # <<>> /\ loggers[1].impl # NilImpl
        /\ \A k \in 1..Len(sent) : sent[k].ret # "panic"

\* C30: the Logger a WithTag call or a successful WithTags call returns has the type of the
\* Logger it was called on.
C30_TypePreserved ==
    \A k \in Derivations :
        sent[k].res # 0 => loggers[sent[k].res].typ = loggers[sent[k].on].typ

====
